---------------------------- MODULE Spec2Model ----------------------------
(***************************************************************************)
(* Model of src/src/process/recipes.py (class Recipe): the session table,  *)
(* anomaly detection, cleaning and the analyses of nutrition, dates,       *)
(* tags, contributors and complexity.                                      *)
(*                                                                         *)
(* Conventions                                                             *)
(*   - a cell is <<>> (null / NaN) or <<v>> (a value);                     *)
(*   - a float is an exact rational [num, den]; den = 0 is NaN;            *)
(*   - a standard deviation is the square root of a rational, kept as its  *)
(*     radicand [rnum, rden]; rden = 0 is NaN;                             *)
(*   - a threshold is a float of either sign, [num, den] with den a power  *)
(*     of 2;                                                               *)
(*   - z-scores are compared as the float64 values scipy computes: where   *)
(*     the exact quotient equals the threshold and the float64 operations  *)
(*     round, the float64 computation is carried out digit by digit.       *)
(***************************************************************************)
EXTENDS Integers, Sequences, FiniteSets

VARIABLES
    dataset,        \* what load_dataset(...).get(name) returns
    session_state,  \* st.session_state: [has_data, data]
    self,           \* the Recipe object most recently constructed
    ret,            \* the last call: [op, args, raised, value]
    before          \* session table rows when the last call started

vars == <<dataset, session_state, self, ret, before>>

-----------------------------------------------------------------------------
(* Bounds of the model *)

MaxRowsNum == 2
MaxRowsMix == 2
MaxRowsTag == 2

-----------------------------------------------------------------------------
(* Generic helpers *)

RECURSIVE SumSeq(_)
SumSeq(s) == IF s = <<>> THEN 0 ELSE Head(s) + SumSeq(Tail(s))

Abs(x) == IF x < 0 THEN -x ELSE x

Range(s) == {s[i] : i \in 1..Len(s)}

\* the elements of a finite set, as a sequence
RECURSIVE SetToSeq(_)
SetToSeq(S) ==
    IF S = {} THEN <<>>
    ELSE LET x == CHOOSE y \in S : TRUE IN <<x>> \o SetToSeq(S \ {x})

RECURSIVE Flatten(_)
Flatten(ss) == IF ss = <<>> THEN <<>> ELSE Head(ss) \o Flatten(Tail(ss))

\* s with x inserted before the first element greater than x
RECURSIVE InsertAsc(_, _)
InsertAsc(x, s) ==
    IF s = <<>> THEN <<x>>
    ELSE IF Head(s) > x THEN <<x>> \o s
    ELSE <<Head(s)>> \o InsertAsc(x, Tail(s))

RECURSIVE SortAsc(_)
SortAsc(s) == IF s = <<>> THEN <<>> ELSE InsertAsc(Head(s), SortAsc(Tail(s)))

NaN == [num |-> 0, den |-> 0]
IsNaN(x) == x.den = 0
Float(n) == [num |-> n, den |-> 1]

-----------------------------------------------------------------------------
(* float64 arithmetic of the percentages: count / total * 100 rounded to 2   *)
(* decimals.  A value is [bits, frac, sticky]: the binary digits of an       *)
(* integer, lowest first, the number of them after the binary point, and     *)
(* whether non-zero digits follow the lowest one (always FALSE for a double).*)

\* significant binary digits of a float64
Mantissa == 53

\* binary digits of the quotient computed after the binary point, in bytes:
\* enough for the leading zeros of count / total and Mantissa + 1 digits
FractionBytes == 10

\* the digit of index i of b, 0 past its end (binary digits or bytes)
Bit(b, i) == IF i >= 1 /\ i <= Len(b) THEN b[i] ELSE 0

\* digits 8j-7 .. 8j of b as a number
ByteAt(b, j) ==
    Bit(b, 8 * j - 7) + 2 * Bit(b, 8 * j - 6) + 4 * Bit(b, 8 * j - 5)
        + 8 * Bit(b, 8 * j - 4) + 16 * Bit(b, 8 * j - 3) + 32 * Bit(b, 8 * j - 2)
        + 64 * Bit(b, 8 * j - 1) + 128 * Bit(b, 8 * j)

\* binary digits, lowest first, regrouped by 8 and back
ToBytes(b) == [j \in 1..((Len(b) + 7) \div 8) |-> ByteAt(b, j)]

FromBytes(l) ==
    [i \in 1..(8 * Len(l)) |-> (l[(i - 1) \div 8 + 1] \div 2 ^ ((i - 1) % 8)) % 2]

RECURSIVE BytesNat(_)
BytesNat(l) == IF l = <<>> THEN 0 ELSE Head(l) + 256 * BytesNat(Tail(l))

\* the number a sequence of binary digits denotes
BitsNat(b) == BytesNat(ToBytes(b))

\* b without its leading zeros (binary digits or bytes, lowest first)
TrimBits(b) ==
    LET set == {i \in 1..Len(b) : b[i] # 0}
    IN  IF set = {} THEN <<>>
        ELSE SubSeq(b, 1, CHOOSE i \in set : \A j \in set : j <= i)

\* the binary digits of a natural number below 2^31, lowest first
NatBits(k) ==
    TrimBits(FromBytes(<<k % 256, (k \div 256) % 256, (k \div 65536) % 256,
                         k \div 16777216>>))

Reverse(s) == [i \in 1..Len(s) |-> s[Len(s) + 1 - i]]

\* a + b + carry on bytes, lowest first, from the byte of index j on
RECURSIVE AddBytes(_, _, _, _)
AddBytes(a, b, j, carry) ==
    IF j > Len(a) /\ j > Len(b) THEN <<carry>>
    ELSE <<(Bit(a, j) + Bit(b, j) + carry) % 256>>
             \o AddBytes(a, b, j + 1, (Bit(a, j) + Bit(b, j) + carry) \div 256)

\* a - b - borrow on bytes, lowest first, from the byte of index j on (a >= b)
RECURSIVE SubBytes(_, _, _, _)
SubBytes(a, b, j, borrow) ==
    IF j > Len(a) THEN <<>>
    ELSE <<(256 + Bit(a, j) - Bit(b, j) - borrow) % 256>>
             \o SubBytes(a, b, j + 1,
                         IF Bit(a, j) - Bit(b, j) - borrow < 0 THEN 1 ELSE 0)

\* the carries of the columns of a product taken in, from column j on
RECURSIVE CarryBytes(_, _, _)
CarryBytes(cols, j, carry) ==
    IF j > Len(cols) THEN <<carry>>
    ELSE <<(cols[j] + carry) % 256>>
             \o CarryBytes(cols, j + 1, (cols[j] + carry) \div 256)

\* a * b on bytes, lowest first (7 bytes each at most): the column k sums the
\* products of weight 256^(k - 1)
TimesBytes(a, b) ==
    LET Column(k) == SumSeq([i \in 1..Len(a) |-> a[i] * Bit(b, k + 1 - i)])
    IN  CarryBytes([k \in 1..(Len(a) + Len(b) - 1) |-> Column(k)], 1, 0)

\* a * b on binary digits
TimesBits(a, b) ==
    IF a = <<>> \/ b = <<>> THEN <<>>
    ELSE FromBytes(TimesBytes(ToBytes(a), ToBytes(b)))

\* l \div n on bytes, highest first, followed by the remainder, r being the
\* remainder brought in (r below n, n below 2^23)
RECURSIVE DivBytes(_, _, _)
DivBytes(l, n, r) ==
    IF l = <<>> THEN <<r>>
    ELSE <<(r * 256 + Head(l)) \div n>>
             \o DivBytes(Tail(l), n, (r * 256 + Head(l)) % n)

\* b + 1
IncBits(b) ==
    LET zeros == {i \in 1..Len(b) : b[i] = 0}
        SetAt(z) == [i \in 1..(IF z > Len(b) THEN z ELSE Len(b)) |->
                        IF i < z THEN 0 ELSE IF i = z THEN 1 ELSE b[i]]
    IN  SetAt(IF zeros = {} THEN Len(b) + 1
              ELSE CHOOSE i \in zeros : \A j \in zeros : i <= j)

\* the exact quotient x / n of integers x >= 0, n > 0, cut after
\* 8 * FractionBytes digits: the bytes of (x % n) / n after the binary point
Quotient(x, n) ==
    LET q == DivBytes([i \in 1..FractionBytes |-> 0], n, x % n)
        fraction == FromBytes(Reverse(SubSeq(q, 1, FractionBytes)))
    IN  [bits |-> fraction \o NatBits(x \div n), frac |-> 8 * FractionBytes,
         sticky |-> q[FractionBytes + 1] # 0]

\* a value rounded to the nearest double, ties to the even one: of the
\* digits b of the value the d lowest are cut, and the digits kept take 1 more
\* when the value is nearer to the double above.  A value given with Mantissa
\* digits at most is a double unless digits were cut off it (sticky), which
\* is then kept: it has not been rounded.
RoundToDouble(x) ==
    LET Kept(rounded, d) ==
            IF Len(rounded) > Mantissa
            THEN [bits |-> Tail(rounded), frac |-> x.frac - d - 1, sticky |-> FALSE]
            ELSE [bits |-> rounded, frac |-> x.frac - d, sticky |-> FALSE]
        Cut(b, d) ==
            IF d <= 0 THEN [bits |-> b, frac |-> x.frac, sticky |-> x.sticky]
            ELSE IF /\ b[d] = 1
                    /\ (b[d + 1] = 1 \/ x.sticky \/ \E i \in 1..(d - 1) : b[i] = 1)
            THEN Kept(IncBits(SubSeq(b, d + 1, Len(b))), d)
            ELSE Kept(SubSeq(b, d + 1, Len(b)), d)
        Digits(b) == Cut(b, Len(b) - Mantissa)
    IN  Digits(TrimBits(x.bits))

\* x / n in float64, for Python or numpy integers
Divide(x, n) == RoundToDouble(Quotient(x, n))

\* the exact product x * c of a double and an integer below 256
Product(x, c) ==
    [bits |-> TimesBits(x.bits, NatBits(c)), frac |-> x.frac, sticky |-> FALSE]

\* x * c in float64
Times(x, c) == RoundToDouble(Product(x, c))

\* the integer nearest to an exact value, ties to the even one
Rint(x) ==
    LET b == x.bits
        f == x.frac
        int == IF f >= Len(b) THEN 0 ELSE BitsNat(SubSeq(b, f + 1, Len(b)))
        half == Bit(b, f) = 1
        rest == \E i \in 1..(f - 1) : Bit(b, i) = 1
    IN  IF half /\ (rest \/ int % 2 = 1) THEN int + 1 ELSE int

\* Python's round(v, 2): the decimal with 2 places nearest to the exact
\* value of the double v, in hundredths
Round2(v) == Rint(Product(v, 100))

\* numpy's around(v, 2), which Series.round(2) calls: rint(v * 100) / 100,
\* the product being a float64 one, in hundredths
SeriesRound2(v) == Rint(Times(v, 100))

\* the exact x / n * 100 in hundredths: its integer part and, as rem / n, the
\* rest (x >= 0, 0 < n < 2^23)
Hundredths(x, n) ==
    LET tenths == ((x % n) * 100) \div n
        r == ((x % n) * 100) % n
    IN  [floor |-> (x \div n) * 10000 + tenths * 100 + (r * 100) \div n,
         rem |-> (r * 100) % n]

\* the exact x / n * 100 lies midway between two decimals of 2 places
Midway(x, n) == 2 * Hundredths(x, n).rem = n

\* the decimal of 2 places nearest to the exact x / n * 100, which is not
\* midway.  It is what the float64 computation gives as well: the exact value
\* is at least 1 / (2 * n) hundredths away from midway, more than the error of
\* the float64 operations on it.
Nearest(x, n) ==
    IF 2 * Hundredths(x, n).rem > n THEN Hundredths(x, n).floor + 1
    ELSE Hundredths(x, n).floor

\* round(x / n * 100, 2) for Python integers x and n > 0
Percent(x, n) ==
    [num |-> IF Midway(x, n) THEN Round2(Times(Divide(x, n), 100))
             ELSE Nearest(x, n),
     den |-> 100]

\* (x / n * 100).round(2), elementwise on a Series; n = 0 gives 0/0 = NaN
SeriesPercent(x, n) ==
    IF n = 0 THEN NaN
    ELSE [num |-> IF Midway(x, n) THEN SeriesRound2(Times(Divide(x, n), 100))
                  ELSE Nearest(x, n),
          den |-> 100]

-----------------------------------------------------------------------------
(* float64 arithmetic of numpy on non-negative values: each operation gives  *)
(* the exact result rounded to the nearest double                            *)

\* b * 2^k
ShiftBits(b, k) == [i \in 1..(Len(b) + k) |-> IF i <= k THEN 0 ELSE b[i - k]]

\* -1, 0 or 1 as a < b, a = b or a > b (binary digits or bytes)
CompareBits(a, b) ==
    LET differ == {i \in 1..(Len(a) + Len(b)) : Bit(a, i) # Bit(b, i)}
        Sign(top) == IF Bit(a, top) > Bit(b, top) THEN 1 ELSE -1
    IN  IF differ = {} THEN 0
        ELSE Sign(CHOOSE i \in differ : \A j \in differ : j <= i)

Exact(bits, frac) == [bits |-> bits, frac |-> frac, sticky |-> FALSE]

\* x + y
FloatAdd(x, y) ==
    LET f == IF x.frac > y.frac THEN x.frac ELSE y.frac
        a == ToBytes(ShiftBits(x.bits, f - x.frac))
        b == ToBytes(ShiftBits(y.bits, f - y.frac))
    IN  RoundToDouble(Exact(FromBytes(AddBytes(a, b, 1, 0)), f))

\* np.abs(x - y): rounding is symmetric, so the sign can be dropped first
FloatAbsSub(x, y) ==
    LET f == IF x.frac > y.frac THEN x.frac ELSE y.frac
        AbsSub(a, b) == IF CompareBits(a, b) >= 0 THEN SubBytes(a, b, 1, 0)
                        ELSE SubBytes(b, a, 1, 0)
    IN  RoundToDouble(Exact(FromBytes(AbsSub(ToBytes(ShiftBits(x.bits, f - x.frac)),
                                             ToBytes(ShiftBits(y.bits, f - y.frac)))),
                            f))

\* x * y
FloatMul(x, y) == RoundToDouble(Exact(TimesBits(x.bits, y.bits), x.frac + y.frac))

\* x / n for a double x and a count n (0 < n < 2^23): digits are added after
\* the binary point of the dividend; the division takes at most 23 digits
\* off, so the quotient has more than Mantissa + 1 digits
FloatDivNat(x, n) ==
    LET digits == Mantissa + 27
        Rounded(q) ==
            RoundToDouble([bits |-> FromBytes(Reverse(SubSeq(q, 1, Len(q) - 1))),
                           frac |-> x.frac + digits,
                           sticky |-> q[Len(q)] # 0])
    IN  Rounded(DivBytes(Reverse(ToBytes(ShiftBits(x.bits, digits))), n, 0))

\* np.sqrt(x): the root of x scaled by an even power of 2 to 2 * Mantissa + 3
\* binary digits or one more, cut to a natural of Mantissa + 2 digits (7
\* bytes), and whether something was cut.  Root finds the largest natural
\* whose square is at most r byte after byte from the top, p holding the bytes
\* found; RootByte finds a byte binary digit after binary digit: the largest
\* y for which the square of p * 256 + y is at most r cut to the bytes p and
\* y reach.
FloatSqrt(x) ==
    LET b == TrimBits(x.bits)
        least == 2 * Mantissa + 3 - Len(b)
        shift == least + ((x.frac + least) % 2)
        bytes == (Mantissa + 3) \div 8
        Square(p) == TimesBytes(p, p)
        RECURSIVE RootByte(_, _, _, _)
        RootByte(c, p, y, digit) ==
            IF digit = 0 THEN y
            ELSE IF CompareBits(Square(<<y + digit>> \o p), c) <= 0
            THEN RootByte(c, p, y + digit, digit \div 2)
            ELSE RootByte(c, p, y, digit \div 2)
        RECURSIVE Root(_, _)
        Root(r, p) ==
            IF Len(p) = bytes THEN p
            ELSE Root(r, <<RootByte(SubSeq(r, 2 * (bytes - Len(p)) - 1, Len(r)),
                                    p, 0, 128)>> \o p)
        Rounded(r, root) ==
            RoundToDouble([bits |-> FromBytes(root),
                           frac |-> (x.frac + shift) \div 2,
                           sticky |-> CompareBits(Square(root), r) # 0])
        RootOf(r) == Rounded(r, Root(r, <<>>))
    IN  IF b = <<>> THEN Exact(<<>>, 0)
        ELSE RootOf(ToBytes(ShiftBits(b, shift)))

\* numpy's add.reduce over a float64 array of fewer than 128 elements
\* (pairwise_sum): below 8 elements one addition after the other; from 8 on,
\* 8 sums of every 8th element (Lane), added two by two (AddPairs), then the
\* elements left.  Each sum is a double (nothing cut off) when the next
\* addition takes it.
pairwise_sum(q) ==
    LET n == Len(q)
        blocks == n \div 8
        RECURSIVE SumFrom(_, _)
        SumFrom(i, res) ==
            IF i > n \/ res.sticky THEN res
            ELSE SumFrom(i + 1, FloatAdd(res, q[i]))
        RECURSIVE Lane(_, _, _)
        Lane(j, b, res) ==
            IF b >= blocks \/ res.sticky THEN res
            ELSE Lane(j, b + 1, FloatAdd(res, q[8 * b + j]))
        AddPairs(s) == [j \in 1..(Len(s) \div 2) |-> FloatAdd(s[2 * j - 1], s[2 * j])]
        r == [j \in 1..8 |-> Lane(j, 1, q[j])]
    IN  IF n < 8 THEN SumFrom(1, Exact(<<>>, 0))
        ELSE SumFrom(8 * blocks + 1, Head(AddPairs(AddPairs(AddPairs(r)))))

\* whether the double nearest to d / s is greater than the double k, for
\* doubles d >= 0, s > 0, k >= 0: d / s is then greater than the middle of k
\* and the double that follows it, or it is that middle and k, whose last
\* digit is 1, is not the even one of the two
QuotientGt(d, s, k) ==
    LET b == TrimBits(k.bits)
        digits == ShiftBits(b, Mantissa - Len(b))
        middle == Exact(<<1>> \o digits, k.frac + Mantissa - Len(b) + 1)
        Bound(m) == Exact(TimesBits(s.bits, m.bits), s.frac + m.frac)
        Compare(bound, f) == CompareBits(ShiftBits(d.bits, f - d.frac),
                                         ShiftBits(bound.bits, f - bound.frac))
        Sign(bound) == Compare(bound, IF d.frac > bound.frac THEN d.frac
                                      ELSE bound.frac)
        Gt(c) == c > 0 \/ (c = 0 /\ digits[1] = 1)
    IN  IF b = <<>> THEN TrimBits(d.bits) # <<>>
        ELSE Gt(Sign(Bound(middle)))

\* np.abs(stats.zscore(a))[i] > k in float64, v being a[i] and k >= 0, for a
\* column a of naturals that are not all equal: mean = a.sum() / n,
\* std = sqrt(((a - mean) * (a - mean)).sum() / n), z = (a - mean) / std,
\* each of them a double (Mantissa digits at most, none cut off) once computed
FloatAbsZGt(v, a, k) ==
    LET n == Len(a)
        IsDouble(x) == Len(TrimBits(x.bits)) <= Mantissa /\ ~x.sticky
        Square(x) == FloatMul(x, x)
        Gt(mean, std) ==
            /\ IsDouble(std)
            /\ QuotientGt(FloatAbsSub(Exact(NatBits(v), 0), mean), std,
                          Divide(k.num, k.den))
        WithSum(mean, sum) ==
            IsDouble(sum) /\ Gt(mean, FloatSqrt(FloatDivNat(sum, n)))
        WithSquares(mean, squares) ==
            /\ \A i \in 1..Len(squares) : IsDouble(squares[i])
            /\ WithSum(mean, pairwise_sum(squares))
        WithMean(mean) ==
            /\ IsDouble(mean)
            /\ WithSquares(mean, [i \in 1..n |->
                   Square(FloatAbsSub(Exact(NatBits(a[i]), 0), mean))])
    IN  WithMean(Divide(SumSeq(a), n))

-----------------------------------------------------------------------------
(* Exact arithmetic on the floats of the model *)

CellFloat(c) == IF c = <<>> THEN NaN ELSE Float(c[1])

\* x - y; NaN if either is NaN
Sub(x, y) == [num |-> x.num * y.den - y.num * x.den, den |-> x.den * y.den]

AbsF(x) == [num |-> Abs(x.num), den |-> x.den]

StdIsNaN(s) == s.rden = 0

\* x > |k| * s: the comparison of the squares with the sign of the threshold
\* dropped, which GtScaled does not compute
GtScaledUnsigned(x, k, s) ==
    /\ ~IsNaN(x)
    /\ ~StdIsNaN(s)
    /\ x.num > 0
    /\ x.num * x.num * k.den * k.den * s.rden
           > k.num * k.num * s.rnum * x.den * x.den

\* x > k * s for a float x, a threshold k (k.den > 0) and a standard
\* deviation s; FALSE when x or s is NaN (every comparison with NaN is
\* False).  The squares are compared, each side with its sign: k * s has the
\* sign of k, and is 0 when s is (k * s = -0.0 compares as 0).
GtScaled(x, k, s) ==
    LET left == x.num * x.num * k.den * k.den * s.rden
        right == k.num * k.num * s.rnum * x.den * x.den
    IN  /\ ~IsNaN(x)
        /\ ~StdIsNaN(s)
        /\ IF k.num >= 0 THEN x.num > 0 /\ left > right
           ELSE \/ x.num > 0
                \/ x.num = 0 /\ right > 0
                \/ x.num < 0 /\ left < right

\* x <= k * s; FALSE when x or s is NaN
LeScaled(x, k, s) == ~IsNaN(x) /\ ~StdIsNaN(s) /\ ~GtScaled(x, k, s)

-----------------------------------------------------------------------------
(* Column statistics of pandas, numpy and scipy *)

Cells(rows, col) == [i \in 1..Len(rows) |-> rows[i][col]]

IsNull(c) == c = <<>>

NotNull(c) == c # <<>>

\* the non-null values of a column, in row order
Values(cells) ==
    LET present == SelectSeq(cells, NotNull)
    IN  [i \in 1..Len(present) |-> present[i][1]]

Squares(vals) == [i \in 1..Len(vals) |-> vals[i] * vals[i]]

\* n * sum(v^2) - sum(v)^2 = n * sum((v - mean)^2)
Dev(vals) == Len(vals) * SumSeq(Squares(vals)) - SumSeq(vals) * SumSeq(vals)

\* Series.mean(): nulls skipped, NaN when nothing is left
Mean(cells) ==
    LET vals == Values(cells)
    IN  IF vals = <<>> THEN NaN ELSE [num |-> SumSeq(vals), den |-> Len(vals)]

\* Series.std(): nulls skipped, ddof = 1, NaN for fewer than two values
Std(cells) ==
    LET vals == Values(cells)
    IN  [rnum |-> Dev(vals), rden |-> Len(vals) * (Len(vals) - 1)]

HasNull(cells) == \E i \in 1..Len(cells) : IsNull(cells[i])

\* numpy's a.mean(): NaN as soon as one element is NaN
NumpyMean(cells) == IF HasNull(cells) THEN NaN ELSE Mean(cells)

\* numpy's a.std(ddof = 0): NaN as soon as one element is NaN or a is empty
NumpyStd(cells) ==
    IF HasNull(cells) THEN [rnum |-> 0, rden |-> 0]
    ELSE [rnum |-> Dev(Values(cells)), rden |-> Len(cells) * Len(cells)]

\* scipy.stats.zscore(a): (a - a.mean()) / a.std(ddof = 0), elementwise.  An
\* element is kept as the quotient [dev, std] of real numbers, with a[i] and
\* a, which its float64 value is computed from
zscore(cells) ==
    LET mn == NumpyMean(cells)
        std == NumpyStd(cells)
    IN  [i \in 1..Len(cells) |->
            [dev |-> Sub(CellFloat(cells[i]), mn), std |-> std,
             value |-> cells[i], a |-> cells]]

\* a quotient with a NaN operand is NaN, and so is every element of the
\* z-scores of equal values
ZIsNaN(z) == IsNaN(z.dev) \/ StdIsNaN(z.std) \/ z.std.rnum = 0

\* np.abs(z) > k.  FALSE for a NaN.  As real numbers when |z| # k: z^2 and
\* k^2, quotients of integers below 2^31, then differ by more than 2^-31 of
\* their value, and the float64 z of a column of fewer than 2^7 values below
\* 2^10 is within 2^-40 of the real one.  When |z| = k (exactly) and the mean
\* of the column and its standard deviation |a[i] - mean| / k are doubles
\* (dyadic: their denominators are powers of 2), the float64 operations are
\* all exact (sum, deviations, squares and their sums are below 2^53 times
\* their last digit) and so is z, which equals k.  Otherwise |z| = k is
\* compared as float64 computes it.
AbsZGt(z, k) ==
    LET a == Values(z.a)
        exactly == /\ k.num > 0
                   /\ z.dev.num * z.dev.num * k.den * k.den * z.std.rden
                          = k.num * k.num * z.std.rnum * z.dev.den * z.dev.den
        OddPart(n) ==
            n \div (CHOOSE p \in {2 ^ j : j \in 0..30} : n % p = 0 /\ n % (2 * p) # 0)
        dyadic == /\ SumSeq(a) % OddPart(Len(a)) = 0
                  /\ (Abs(z.dev.num) * k.den) % OddPart(z.dev.den * k.num) = 0
    IN  /\ ~ZIsNaN(z)
        /\ IF exactly /\ ~dyadic THEN FloatAbsZGt(z.value[1], a, k)
           ELSE GtScaled(AbsF(z.dev), k, z.std)

\* np.abs(z) <= k; FALSE for a NaN
AbsZLe(z, k) == ~ZIsNaN(z) /\ ~AbsZGt(z, k)

\* Series.median(): nulls skipped
Median(cells) ==
    LET s == SortAsc(Values(cells))
        n == Len(s)
    IN  IF n = 0 THEN NaN
        ELSE IF n % 2 = 1 THEN Float(s[(n + 1) \div 2])
        ELSE [num |-> s[n \div 2] + s[n \div 2 + 1], den |-> 2]

\* Series.min() / Series.max(): nulls skipped
Min(cells) ==
    LET s == SortAsc(Values(cells)) IN IF s = <<>> THEN NaN ELSE Float(s[1])

Max(cells) ==
    LET s == SortAsc(Values(cells)) IN IF s = <<>> THEN NaN ELSE Float(s[Len(s)])

-----------------------------------------------------------------------------
(* The table: [columns, rows]; a row maps every column name to a cell *)

\* dtype family of a column, as select_dtypes sees it
DType(col) ==
    CASE col \in {"minutes", "contributor_id", "n_steps"} -> "number"
      [] col = "submitted" -> "datetime64[ns]"
      [] OTHER -> "object"

\* select_dtypes(include=[np.number]).columns
NumericColumns(data) == SelectSeq(data.columns, LAMBDA c : DType(c) = "number")

\* select_dtypes(include=['object', 'category', 'string']).columns
ObjectColumns(data) == SelectSeq(data.columns, LAMBDA c : DType(c) = "object")

\* rows[mask]: the rows whose index is in keep, in order
RECURSIVE FilterRows(_, _, _)
FilterRows(rows, keep, i) ==
    IF i > Len(rows) THEN <<>>
    ELSE (IF i \in keep THEN <<rows[i]>> ELSE <<>>) \o FilterRows(rows, keep, i + 1)

-----------------------------------------------------------------------------
(* Recipe.detect_dataframe_anomalies *)

\* isnull().sum() of one column
MissingCount(rows, col) == Len(SelectSeq(Cells(rows, col), IsNull))

MissingCountQueryGe(count) == count >= 0

\* .query('`Missing Count` > 0')
MissingCountQuery(count) == count > 0

missing_df(data) ==
    LET cols == SelectSeq(data.columns,
                          LAMBDA c : MissingCountQuery(MissingCount(data.rows, c)))
    IN  [i \in 1..Len(cols) |->
            [Column |-> cols[i],
             MissingCount |-> MissingCount(data.rows, cols[i]),
             MissingPercentage |->
                 SeriesPercent(MissingCount(data.rows, cols[i]), Len(data.rows))]]

\* np.abs(data[col] - mean) > (std_threshold * std), for one cell
IsStdOutlier(cell, mean, std, std_threshold) ==
    GtScaled(AbsF(Sub(CellFloat(cell), mean)), std_threshold, std)

\* the index of the rows of std_outliers for one column
StdOutlierRows(rows, col, std_threshold) ==
    LET mean == Mean(Cells(rows, col))
        std == Std(Cells(rows, col))
    IN  {i \in 1..Len(rows) : IsStdOutlier(rows[i][col], mean, std, std_threshold)}

std_outliers_info(rows, col, std_threshold) ==
    [Column |-> col,
     Mean |-> Mean(Cells(rows, col)),
     StandardDeviation |-> Std(Cells(rows, col)),
     LowerBound |-> [base |-> Mean(Cells(rows, col)), sign |-> -1,
                     coef |-> std_threshold, root |-> Std(Cells(rows, col))],
     UpperBound |-> [base |-> Mean(Cells(rows, col)), sign |-> 1,
                     coef |-> std_threshold, root |-> Std(Cells(rows, col))],
     OutlierCount |-> Cardinality(StdOutlierRows(rows, col, std_threshold)),
     OutlierPercentage |->
         Percent(Cardinality(StdOutlierRows(rows, col, std_threshold)), Len(rows))]

\* one summary row per numeric column with at least one std outlier
std_outliers_dict(data, std_threshold) ==
    LET cols == SelectSeq(NumericColumns(data),
                    LAMBDA c : StdOutlierRows(data.rows, c, std_threshold) # {})
    IN  [i \in 1..Len(cols) |-> std_outliers_info(data.rows, cols[i], std_threshold)]

\* the index of the rows of z_score_outliers for one column
ZScoreOutlierRows(rows, col, z_score_threshold) ==
    LET z_scores == zscore(Cells(rows, col))
    IN  {i \in 1..Len(rows) : AbsZGt(z_scores[i], z_score_threshold)}

\* the summary of one column, z_score_outliers being the index of its outliers
z_score_outliers_info(rows, col, z_score_outliers) ==
    [Column |-> col,
     Mean |-> Mean(Cells(rows, col)),
     StandardDeviation |-> Std(Cells(rows, col)),
     OutlierCount |-> Cardinality(z_score_outliers),
     OutlierPercentage |-> Percent(Cardinality(z_score_outliers), Len(rows))]

\* one summary row per numeric column with at least one z-score outlier (the
\* summary of a column without outliers is not kept)
z_score_outliers_dict(data, z_score_threshold) ==
    LET cols == NumericColumns(data)
    IN  SelectSeq([i \in 1..Len(cols) |->
                      z_score_outliers_info(data.rows, cols[i],
                          ZScoreOutlierRows(data.rows, cols[i], z_score_threshold))],
                  LAMBDA info : info.OutlierCount > 0)

\* a column whose values are lists (the parsed tags_list and nutrition_list)
HoldsLists(rows, col) == col \in {"tags_list", "nutrition_list"} /\ rows # <<>>

\* unique elements of the lists of a list column, else Series.nunique()
safe_nunique(rows, col) ==
    IF HoldsLists(rows, col)
    THEN Cardinality(UNION {Range(rows[i][col][1]) : i \in 1..Len(rows)})
    ELSE Cardinality(Range(Values(Cells(rows, col))))

column_info_df(data) ==
    LET cols == ObjectColumns(data)
    IN  [i \in 1..Len(cols) |->
            [Column |-> cols[i],
             TotalCount |-> Len(data.rows),
             UniqueCount |-> safe_nunique(data.rows, cols[i]),
             UniquePercentage |->
                 Percent(safe_nunique(data.rows, cols[i]), Len(data.rows))]]

\* one row per column: its dtype and the first row's value
data_types_df(data) ==
    [i \in 1..Len(data.columns) |->
        [Column |-> data.columns[i], DataType |-> DType(data.columns[i]),
         Sample |-> data.rows[1][data.columns[i]]]]

\* safe_nunique(...) / len(data) with len(data) = 0 is a ZeroDivisionError and
\* data[col].iloc[0] of an empty column an IndexError
DetectRaises(data) ==
    /\ Len(data.rows) = 0
    /\ (ObjectColumns(data) # <<>> \/ data.columns # <<>>)

\* [raised, value]: the dictionary returned, or the exception re-raised
detect_dataframe_anomalies(data, std_threshold, z_score_threshold) ==
    IF DetectRaises(data)
    THEN [raised |-> TRUE, value |-> <<>>]
    ELSE [raised |-> FALSE,
          value |-> [missing_values |-> missing_df(data),
                     std_outliers |-> std_outliers_dict(data, std_threshold),
                     z_score_outliers |->
                         z_score_outliers_dict(data, z_score_threshold),
                     column_info |-> column_info_df(data),
                     data_types |-> data_types_df(data)]]

-----------------------------------------------------------------------------
(* Recipe.clean_dataframe *)

\* data[col] >= lower_bound, with lower_bound = mean - threshold * std
GeLowerBound(cell, mean, std, threshold) ==
    LeScaled(Sub(mean, CellFloat(cell)), threshold, std)

\* data[col] <= upper_bound, with upper_bound = mean + threshold * std
LeUpperBound(cell, mean, std, threshold) ==
    LeScaled(Sub(CellFloat(cell), mean), threshold, std)

\* the rows one numeric column's step keeps
CleanStep(rows, col, cleaning_method, threshold) ==
    LET mean == Mean(Cells(rows, col))
        std == Std(Cells(rows, col))
        z_scores == zscore(Cells(rows, col))
    IN  IF cleaning_method = "std"
        THEN FilterRows(rows,
                 {i \in 1..Len(rows) :
                     /\ GeLowerBound(rows[i][col], mean, std, threshold)
                     /\ LeUpperBound(rows[i][col], mean, std, threshold)}, 1)
        ELSE IF cleaning_method = "zscore"
        THEN FilterRows(rows,
                 {i \in 1..Len(rows) : AbsZLe(z_scores[i], threshold)}, 1)
        ELSE rows

\* for col in numeric_columns: each step filters what the earlier steps left
RECURSIVE CleanColumns(_, _, _, _)
CleanColumns(rows, cols, cleaning_method, threshold) ==
    IF cols = <<>> THEN rows
    ELSE CleanColumns(CleanStep(rows, Head(cols), cleaning_method, threshold),
                      Tail(cols), cleaning_method, threshold)

\* dropna whose result is not assigned back: the table is left as it was
dropna_unassigned(rows, subset) == rows

\* dropna(subset = ...): the rows with no null in any column of subset
dropna(rows, subset) ==
    FilterRows(rows, {i \in 1..Len(rows) : \A c \in subset : NotNull(rows[i][c])}, 1)

\* .index of the stored missing_values report
MissingIndex(annomalis) ==
    {annomalis.missing_values[i].Column : i \in 1..Len(annomalis.missing_values)}

\* the session table after clean_dataframe (the row index is positional here,
\* so reset_index(drop = True) changes nothing the model keeps)
clean_dataframe(data, annomalis, cleaning_method, threshold) ==
    LET filtered == CleanColumns(data.rows, NumericColumns(data),
                                 cleaning_method, threshold)
    IN  [data EXCEPT !.rows =
            IF annomalis.missing_values # <<>>
            THEN dropna(filtered, MissingIndex(annomalis))
            ELSE filtered]

-----------------------------------------------------------------------------
(* Recipe.initialize_session_state *)

\* datetime(y, m, d): the days from 1970-01-01 to a date of the Gregorian
\* calendar, the instant a Timestamp counts from the epoch (no time of day)
Date(y, m, d) ==
    LET yy == IF m <= 2 THEN y - 1 ELSE y
        era == yy \div 400
        yoe == yy - era * 400
        doy == (153 * (IF m > 2 THEN m - 3 ELSE m + 9) + 2) \div 5 + d - 1
        doe == yoe * 365 + yoe \div 4 - yoe \div 100 + doy
    IN  era * 146097 + doe - 719468

\* pd.to_datetime of one cell: a <<year, month, day>> text becomes a
\* datetime, a datetime stays
to_datetime(cell) ==
    IF Len(cell) = 3 THEN <<Date(cell[1], cell[2], cell[3])>> ELSE cell

\* data['submitted'] = pd.to_datetime(data['submitted'])
ConvertSubmitted(rows) ==
    [i \in 1..Len(rows) |-> [rows[i] EXCEPT !.submitted = to_datetime(@)]]

\* (submitted >= date_start) & (submitted <= date_end); NaT compares False
InDateRange(cell, date_start, date_end) ==
    /\ NotNull(cell)
    /\ cell[1] >= date_start
    /\ cell[1] <= date_end

\* if 'data' not in st.session_state: st.session_state.data = load_dataset(...)
LoadIfAbsent(state, loaded) ==
    IF state.has_data THEN state ELSE [has_data |-> TRUE, data |-> loaded]

initialize_session_state(state, loaded, date_start, date_end) ==
    LET st == LoadIfAbsent(state, loaded)
        converted == ConvertSubmitted(st.data.rows)
    IN  [st EXCEPT !.data.rows =
            FilterRows(converted,
                {i \in 1..Len(converted) :
                    InDateRange(converted[i].submitted, date_start, date_end)}, 1)]

-----------------------------------------------------------------------------
(* Texts of lists, as the dataset stores them, and value_counts *)

\* repr of a list of literals of one kind ("str" or "num"): the tokens "[",
\* the literals separated by ",", "]"
Repr(kind, list) ==
    LET last == IF list = <<>> THEN 2 ELSE 2 * Len(list) + 1
    IN  [i \in 1..last |->
            IF i = 1 THEN <<"[">>
            ELSE IF i = last THEN <<"]">>
            ELSE IF i % 2 = 0 THEN <<kind, list[i \div 2]>>
            ELSE <<",">>]

\* eval of such a text: the list of its literals
Eval(text) ==
    LET literals == SelectSeq(SubSeq(text, 2, Len(text) - 1),
                              LAMBDA tok : Len(tok) = 2)
    IN  [i \in 1..Len(literals) |-> literals[i][2]]

\* where x first appears in a list
FirstIndex(list, x) ==
    CHOOSE i \in 1..Len(list) : list[i] = x /\ \A j \in 1..(i - 1) : list[j] # x

\* the distinct elements of a list, in order of first appearance
Distinct(list) ==
    LET firsts == SortAsc(SetToSeq({FirstIndex(list, x) : x \in Range(list)}))
    IN  [k \in 1..Len(firsts) |-> list[firsts[k]]]

Occurrences(list, x) == Len(SelectSeq(list, LAMBDA y : y = x))

\* each distinct value with its count, in order of first appearance
Counts(list) ==
    LET values == Distinct(list)
    IN  [i \in 1..Len(values) |->
            [value |-> values[i], count |-> Occurrences(list, values[i])]]

\* every arrangement of a finite set as a sequence
RECURSIVE Permutations(_)
Permutations(S) ==
    IF S = {} THEN {<<>>}
    ELSE UNION {{<<p>> \o rest : rest \in Permutations(S \ {p})} : p \in S}

\* every arrangement of the entries whose count is one of the first k of
\* levels, a list of counts in ascending order, by descending count
RECURSIVE Arrangements(_, _, _)
Arrangements(entries, levels, k) ==
    IF k = 0 THEN {<<>>}
    ELSE {first \o rest :
             first \in Permutations({p \in entries : p.count = levels[k]}),
             rest \in Arrangements(entries, levels, k - 1)}

\* every arrangement of the entries by descending count
Descending(entries) ==
    LET levels == SortAsc(SetToSeq({p.count : p \in entries}))
    IN  Arrangements(entries, levels, Len(levels))

\* the counts left in order of first appearance, without the sort
value_counts_unsorted(list) == {Counts(list)}

\* Series(list).value_counts(): one entry per distinct value, by descending
\* count.  The sort (sort_values, kind 'quicksort') is not stable: the order
\* of entries of equal count is the build's, so every order is a result.
value_counts(list) == Descending(Range(Counts(list)))

\* .head(n)
head(s, n) == SubSeq(s, 1, IF Len(s) < n THEN Len(s) ELSE n)

-----------------------------------------------------------------------------
(* Recipe.analyze_tags *)

HeadCount == 20

\* df['tags_list'] = df['tags'].apply(eval)
AddTagsList(data) ==
    [columns |-> IF "tags_list" \in Range(data.columns) THEN data.columns
                 ELSE Append(data.columns, "tags_list"),
     rows |-> [i \in 1..Len(data.rows) |->
                  [data.rows[i] EXCEPT !.tags_list = <<Eval(data.rows[i].tags[1])>>]]]

\* [tag for tags in df['tags_list'] for tag in tags]
all_tags(df) == Flatten([i \in 1..Len(df.rows) |-> df.rows[i].tags_list[1]])

\* df['tags_list'].str.len()
TagListLens(rows) == [i \in 1..Len(rows) |-> <<Len(rows[i].tags_list[1])>>]

\* eval of a null raises TypeError, before tags_list is assigned
TagsRaises(data) == HasNull(Cells(data.rows, "tags"))

\* tag_stats for df, the table with tags_list, and tag_counts, the result of
\* value_counts on all_tags
tag_stats(df, tag_counts) ==
    [total_unique_tags |-> Len(tag_counts),
     most_common_tags |-> head(tag_counts, HeadCount),
     tags_per_recipe |-> [mean |-> Mean(TagListLens(df.rows)),
                          median |-> Median(TagListLens(df.rows)),
                          min |-> Min(TagListLens(df.rows)),
                          max |-> Max(TagListLens(df.rows))]]

-----------------------------------------------------------------------------
(* Recipe.analyze_nutrition *)

nutrition_columns ==
    <<"calories", "total_fat", "sugar", "sodium", "protein", "saturated_fat",
      "carbohydrates">>

\* df['nutrition_list'] = df['nutrition'].apply(eval)
AddNutritionList(data) ==
    [columns |-> IF "nutrition_list" \in Range(data.columns) THEN data.columns
                 ELSE Append(data.columns, "nutrition_list"),
     rows |-> [i \in 1..Len(data.rows) |->
                  [data.rows[i] EXCEPT
                      !.nutrition_list = <<Eval(data.rows[i].nutrition[1])>>]]]

\* eval of a null raises TypeError, before nutrition_list is assigned
NutritionEvalRaises(data) == HasNull(Cells(data.rows, "nutrition"))

\* the length of the longest list of df['nutrition_list'].tolist()
NutritionWidth(rows) ==
    LET lens == {Len(rows[i].nutrition_list[1]) : i \in 1..Len(rows)}
    IN  IF lens = {} THEN 0 ELSE CHOOSE n \in lens : \A m \in lens : m <= n

\* pd.DataFrame(lists, columns=nutrition_columns) raises ValueError when the
\* lists, padded to the longest, do not have as many columns as there are
\* names; no list at all gives the empty frame
NutritionFrameRaises(df) ==
    df.rows # <<>> /\ NutritionWidth(df.rows) # Len(nutrition_columns)

\* column k of nutrition_df: a shorter list is padded with nulls
nutrition_df(df, k) ==
    [i \in 1..Len(df.rows) |->
        IF k <= Len(df.rows[i].nutrition_list[1])
        THEN <<df.rows[i].nutrition_list[1][k]>> ELSE <<>>]

\* Series.quantile(k / 4): nulls skipped, linear interpolation between the
\* order statistics around position (n - 1) * k / 4
quantile(cells, k) ==
    LET s == SortAsc(Values(cells))
        pos == (Len(s) - 1) * k
        lo == pos \div 4 + 1
    IN  IF s = <<>> THEN NaN
        ELSE IF pos % 4 = 0 THEN Float(s[lo])
        ELSE [num |-> 4 * s[lo] + (pos % 4) * (s[lo + 1] - s[lo]), den |-> 4]

\* nutrition_stats for df, the table with nutrition_list; the quartiles map
\* 1, 2, 3 (for 0.25, 0.5, 0.75) to the quantile
nutrition_stats(df) ==
    [k \in 1..Len(nutrition_columns) |->
        [column |-> nutrition_columns[k],
         mean |-> Mean(nutrition_df(df, k)),
         median |-> Median(nutrition_df(df, k)),
         min |-> Min(nutrition_df(df, k)),
         max |-> Max(nutrition_df(df, k)),
         quartiles |-> [q \in 1..3 |-> quantile(nutrition_df(df, k), q)]]]

-----------------------------------------------------------------------------
(* Recipe.analyze_temporal_distribution *)

\* the <<year, month, day>> of a datetime
Civil(days) ==
    LET z == days + 719468
        era == z \div 146097
        doe == z - era * 146097
        yoe == (doe - doe \div 1460 + doe \div 36524 - doe \div 146096) \div 365
        doy == doe - (365 * yoe + yoe \div 4 - yoe \div 100)
        mp == (5 * doy + 2) \div 153
        m == IF mp < 10 THEN mp + 3 ELSE mp - 9
    IN  <<(IF m <= 2 THEN yoe + era * 400 + 1 ELSE yoe + era * 400), m,
          doy - (153 * mp + 2) \div 5 + 1>>

\* .dt.year, .dt.month, .dt.dayofweek (Monday is 0; 1970-01-01 is a Thursday)
year(days) == Civil(days)[1]

month(days) == Civil(days)[2]

dayofweek(days) == (days + 3) % 7

\* df.groupby(key).size().to_dict(), keys being the key of each date
GroupSizes(keys) == [k \in Range(keys) |-> Occurrences(keys, k)]

\* Series.min() / Series.max() of datetimes: NaT (null) when nothing is left
DateMin(dates) == IF dates = <<>> THEN <<>> ELSE <<SortAsc(dates)[1]>>

DateMax(dates) == IF dates = <<>> THEN <<>> ELSE <<SortAsc(dates)[Len(dates)]>>

\* (max - min).days; NaT - NaT is NaT, whose .days is NaN
total_days(dates) ==
    IF dates = <<>> THEN NaN ELSE Float(DateMax(dates)[1] - DateMin(dates)[1])

temporal_stats(data, date_start, date_end) ==
    LET df == FilterRows(data.rows,
                  {i \in 1..Len(data.rows) :
                      InDateRange(data.rows[i].submitted, date_start, date_end)}, 1)
        dates == Values(Cells(df, "submitted"))
    IN  [date_min |-> DateMin(dates),
         date_max |-> DateMax(dates),
         total_days |-> total_days(dates),
         submissions_per_year |->
             GroupSizes([i \in 1..Len(dates) |-> year(dates[i])]),
         submissions_per_month |->
             GroupSizes([i \in 1..Len(dates) |-> month(dates[i])]),
         submissions_per_weekday |->
             GroupSizes([i \in 1..Len(dates) |-> dayofweek(dates[i])])]

-----------------------------------------------------------------------------
(* Recipe.analyze_contributors *)

TopCount == 10

\* the counts of a value_counts() result, as a column
CountCells(counts) == [i \in 1..Len(counts) |-> <<counts[i].count>>]

\* contributor_stats for counts, the result of
\* df['contributor_id'].value_counts() (nulls are not counted)
contributor_stats(data, counts) ==
    [total_contributors |->
         Cardinality(Range(Values(Cells(data.rows, "contributor_id")))),
     contributions_per_user |-> [mean |-> Mean(CountCells(counts)),
                                 median |-> Median(CountCells(counts)),
                                 max |-> Max(CountCells(counts))],
     top_contributors |-> head(counts, TopCount)]

-----------------------------------------------------------------------------
(* Recipe.analyze_recipe_complexity *)

\* bins = [0, 15, 30, 60, 120, float('inf')]; the last edge is infinite
bins == <<0, 15, 30, 60, 120>>

labels == <<"0-15min", "15-30min", "30-60min", "1-2h", ">2h">>

\* the bin (bins[i], bins[i+1]] holding v: closed on the right, open on the left
InBin(v, i) == bins[i] < v /\ (i = Len(bins) \/ v <= bins[i + 1])

\* pd.cut of one cell: its label, or null when no bin holds it
cut(cell) ==
    IF IsNull(cell) \/ ~\E i \in 1..Len(bins) : InBin(cell[1], i) THEN <<>>
    ELSE <<labels[CHOOSE i \in 1..Len(bins) : InBin(cell[1], i)]>>

\* pd.cut(...).value_counts().to_dict(): every label, with its count
time_ranges(rows) ==
    [l \in Range(labels) |->
        Cardinality({i \in 1..Len(rows) : cut(rows[i].minutes) = <<l>>})]

\* value_counts().sort_index().to_dict(): each value present, with its count
distribution(cells) ==
    [v \in Range(Values(cells)) |-> Occurrences(Values(cells), v)]

complexity_stats(data) ==
    [steps_stats |-> [mean |-> Mean(Cells(data.rows, "n_steps")),
                      median |-> Median(Cells(data.rows, "n_steps")),
                      min |-> Min(Cells(data.rows, "n_steps")),
                      max |-> Max(Cells(data.rows, "n_steps")),
                      distribution |-> distribution(Cells(data.rows, "n_steps"))],
     time_stats |-> [mean_minutes |-> Mean(Cells(data.rows, "minutes")),
                     median_minutes |-> Median(Cells(data.rows, "minutes")),
                     min_minutes |-> Min(Cells(data.rows, "minutes")),
                     max_minutes |-> Max(Cells(data.rows, "minutes")),
                     time_ranges |-> time_ranges(data.rows)]]

-----------------------------------------------------------------------------
(* Recipe.analyze_recipe_dataset *)

\* general_stats, but for dataset_size_mb: the bytes memory_usage(deep=True)
\* counts are the interpreter's and are not kept
general_stats(data) ==
    [total_recipes |-> Len(data.rows),
     columns |-> data.columns,
     missing_values |->
         [i \in 1..Len(data.columns) |->
             [Column |-> data.columns[i],
              MissingCount |-> MissingCount(data.rows, data.columns[i])]]]

\* the dictionary returned when no analysis raises
recipe_dataset_analysis(general, temporal, complexity, nutrition, tag, contributor) ==
    [general_stats |-> general,
     temporal_analysis |-> temporal,
     complexity_analysis |-> complexity,
     nutrition_analysis |-> nutrition,
     tag_analysis |-> tag,
     contributor_analysis |-> contributor]

-----------------------------------------------------------------------------
(* The inputs: datasets, date ranges, thresholds, cleaning methods *)

\* the columns of the recipes dataset the model keeps, in the file's order
DatasetColumns ==
    <<"minutes", "contributor_id", "submitted", "tags", "nutrition", "n_steps",
      "description">>

\* a row of the loaded dataset: every argument is a cell
Row(minutes, contributor_id, submitted, tags, nutrition, n_steps, description) ==
    [minutes |-> minutes, contributor_id |-> contributor_id,
     submitted |-> submitted, tags |-> tags, nutrition |-> nutrition,
     n_steps |-> n_steps, description |-> description,
     tags_list |-> <<>>, nutrition_list |-> <<>>]

Table(rows) == [columns |-> DatasetColumns, rows |-> rows]

\* the tables of at most n rows taken from a list of rows, in the order of
\* the list: tables that differ by the order of their rows only are one input
TablesOf(rows, n) ==
    {Table([i \in 1..Len(pick) |-> rows[pick[i]]]) :
        pick \in {f \in UNION {[1..k -> 1..Len(rows)] : k \in 0..n} :
                     \A i \in 1..(Len(f) - 1) : f[i] <= f[i + 1]}}

Day1 == <<2015, 1, 1>>
Day2 == <<2016, 6, 15>>

Easy == <<Repr("str", <<"easy">>)>>

Nutrition1 == <<Repr("num", <<50, 0, 13, 0, 2, 0, 4>>)>>
Nutrition2 == <<Repr("num", <<170, 10, 0, 17, 22, 35, 1>>)>>

\* a text that holds 6 values only
NutritionShort == <<Repr("num", <<170, 10, 0, 17, 22, 35>>)>>

\* tables whose numeric column minutes varies
NumRows ==
    [j \in 1..3 |->
        Row(<<(<<0, 1, 3>>)[j]>>, <<7>>, Day1, Easy, Nutrition1, <<1>>, <<"d">>)]

\* tables whose dates, numeric columns, nutrition and description vary and
\* where tags, nutrition or description may be null
MixRows ==
    <<Row(<<0>>, <<7>>, Day1, Easy, Nutrition1, <<2>>, <<"d">>),
      Row(<<45>>, <<8>>, Day2, Easy, Nutrition2, <<9>>, <<"d">>),
      Row(<<45>>, <<8>>, Day1, <<>>, NutritionShort, <<9>>, <<>>),
      Row(<<0>>, <<7>>, Day2, Easy, <<>>, <<2>>, <<>>)>>

TagNames ==
    <<"t01", "t02", "t03", "t04", "t05", "t06", "t07", "t08", "t09", "t10", "t11",
      "t12", "t13", "t14", "t15", "t16", "t17", "t18", "t19", "t20", "t21", "t22">>

\* a tag k times
Repeated(tag, k) == [i \in 1..k |-> tag]

\* t01 once, t02 twice, ... t11 11 times
TagsLow == Flatten([i \in 1..11 |-> Repeated(TagNames[i], i)])

\* t12 twice, then t13 13 times, t14 15 times, ... t22 31 times
TagsHigh ==
    Repeated("t12", 2)
        \o Flatten([i \in 1..10 |-> Repeated(TagNames[i + 12], 2 * i + 11)])

\* tables whose tag lists vary: over two rows 22 distinct tags whose counts
\* differ but for t02 and t12, and the empty list
TagRows ==
    [j \in 1..3 |->
        Row(<<10>>, <<7>>, Day1,
            <<Repr("str", (<<TagsLow, TagsHigh, <<>>>>)[j])>>,
            Nutrition1, <<3>>, <<"d">>)]

\* the end-to-end scenarios of the specification
ScenarioTimeRanges ==
    Table(<<Row(<<10>>, <<7>>, <<2015, 1, 1>>, Easy, Nutrition1, <<1>>, <<"d">>),
            Row(<<45>>, <<7>>, <<2016, 6, 15>>, Easy, Nutrition1, <<1>>, <<"d">>),
            Row(<<70>>, <<7>>, <<2017, 3, 20>>, Easy, Nutrition1, <<1>>, <<"d">>),
            Row(<<200>>, <<7>>, <<2018, 11, 30>>, Easy, Nutrition1, <<1>>, <<"d">>)>>)

ScenarioOutlier ==
    Table([i \in 1..5 |->
              Row(<<(<<1, 2, 3, 4, 100>>)[i]>>, <<7>>, Day1, Easy, Nutrition1,
                  <<1>>, <<"d">>)])

\* a table of three rows whose minutes differ
ThreeMinutes == Table(NumRows)

\* a table of three rows whose minutes are null in one
MissingThird ==
    Table([i \in 1..3 |->
              Row((<<(<<>>), (<<1>>), (<<3>>)>>)[i], <<7>>, Day1, Easy, Nutrition1,
                  <<1>>, <<"d">>)])

\* a table of nine rows whose minutes have the mean 1 / 3 and the population
\* standard deviation 2 / 3: the z-score of the row of 1 is 1 as a real number
ZScoreTie ==
    Table([i \in 1..9 |->
              Row(<<(<<0, 0, 0, 0, 0, 0, 0, 1, 2>>)[i]>>, <<7>>, Day1, Easy,
                  Nutrition1, <<1>>, <<"d">>)])

Datasets ==
    TablesOf(NumRows, MaxRowsNum) \cup TablesOf(MixRows, MaxRowsMix)
        \cup TablesOf(TagRows, MaxRowsTag)
        \cup {ScenarioTimeRanges, ScenarioOutlier, ThreeMinutes, MissingThird,
              ZScoreTie}

\* the constructor's default range and a one-year range
DateRanges ==
    {<<Date(1999, 1, 1), Date(2018, 12, 31)>>,
     <<Date(2015, 1, 1), Date(2015, 12, 31)>>}

\* std_threshold = z_score_threshold = threshold = 3.0 by default.  A
\* threshold is a float: num / den with den a power of 2, of either sign.
DefaultThreshold == [num |-> 3, den |-> 1]

\* (cleaning_method, threshold) of a cleaning: both methods with a lowered
\* threshold and with a negative one
CleanCalls ==
    {<<"std", [num |-> 1, den |-> 1]>>, <<"zscore", [num |-> 1, den |-> 1]>>,
     <<"std", [num |-> -1, den |-> 1]>>, <<"zscore", [num |-> -1, den |-> 1]>>}

\* (std_threshold, z_score_threshold) of a direct call: both lowered, or both
\* negative (the construction calls with the defaults)
DetectThresholds ==
    {<<[num |-> 1, den |-> 1], [num |-> 1, den |-> 1]>>,
     <<[num |-> -1, den |-> 1], [num |-> -1, den |-> 1]>>}

-----------------------------------------------------------------------------
(* The state machine *)

NoRecipe ==
    [constructed |-> FALSE, date_start |-> 0, date_end |-> 0,
     annomalis |-> <<>>, columns |-> <<>>]

NoCall == [op |-> "", args |-> <<>>, raised |-> FALSE, value |-> <<>>]

\* the outcome of a call
Returned(op, args, value) == [op |-> op, args |-> args, raised |-> FALSE, value |-> value]

Raised(op, args) == [op |-> op, args |-> args, raised |-> TRUE, value |-> <<>>]

Init ==
    /\ dataset \in Datasets
    /\ session_state = [has_data |-> FALSE, data |-> Table(<<>>)]
    /\ self = NoRecipe
    /\ ret = NoCall
    /\ before = <<>>

\* Recipe(name, date_start, date_end): __init__
Recipe(date_start, date_end) ==
    LET st == initialize_session_state(session_state, dataset, date_start, date_end)
        det == detect_dataframe_anomalies(st.data, DefaultThreshold, DefaultThreshold)
    IN  /\ session_state' = st
        /\ self' = IF det.raised THEN self
                   ELSE [constructed |-> TRUE, date_start |-> date_start,
                         date_end |-> date_end, annomalis |-> det.value,
                         columns |-> st.data.columns]
        /\ ret' = [op |-> "Recipe", args |-> <<date_start, date_end>>,
                   raised |-> det.raised, value |-> <<>>]
        /\ before' = session_state.data.rows
        /\ UNCHANGED dataset

\* self.detect_dataframe_anomalies(std_threshold, z_score_threshold)
Detect(std_threshold, z_score_threshold) ==
    LET det == detect_dataframe_anomalies(session_state.data, std_threshold,
                                          z_score_threshold)
    IN  /\ self.constructed
        /\ ret' = [op |-> "detect_dataframe_anomalies",
                   args |-> <<std_threshold, z_score_threshold>>,
                   raised |-> det.raised, value |-> det.value]
        /\ before' = session_state.data.rows
        /\ UNCHANGED <<dataset, session_state, self>>

\* self.clean_dataframe(cleaning_method, threshold)
Clean(cleaning_method, threshold) ==
    /\ self.constructed
    /\ session_state' =
           [session_state EXCEPT !.data =
               clean_dataframe(session_state.data, self.annomalis,
                               cleaning_method, threshold)]
    /\ ret' = Returned("clean_dataframe", <<cleaning_method, threshold>>, <<>>)
    /\ before' = session_state.data.rows
    /\ UNCHANGED <<dataset, self>>

\* self.analyze_nutrition()
AnalyzeNutrition ==
    LET df == AddNutritionList(session_state.data)
    IN  /\ self.constructed
        /\ IF NutritionEvalRaises(session_state.data)
           THEN /\ ret' = Raised("analyze_nutrition", <<>>)
                /\ UNCHANGED session_state
           ELSE /\ session_state' = [session_state EXCEPT !.data = df]
                /\ ret' = IF NutritionFrameRaises(df)
                          THEN Raised("analyze_nutrition", <<>>)
                          ELSE Returned("analyze_nutrition", <<>>,
                                        nutrition_stats(df))
        /\ before' = session_state.data.rows
        /\ UNCHANGED <<dataset, self>>

\* self.analyze_temporal_distribution(date_start, date_end)
AnalyzeTemporal(date_start, date_end) ==
    /\ self.constructed
    /\ ret' = Returned("analyze_temporal_distribution", <<date_start, date_end>>,
                       temporal_stats(session_state.data, date_start, date_end))
    /\ before' = session_state.data.rows
    /\ UNCHANGED <<dataset, session_state, self>>

\* self.analyze_tags()
AnalyzeTags ==
    LET df == AddTagsList(session_state.data)
    IN  /\ self.constructed
        /\ IF TagsRaises(session_state.data)
           THEN /\ ret' = Raised("analyze_tags", <<>>)
                /\ UNCHANGED session_state
           ELSE /\ session_state' = [session_state EXCEPT !.data = df]
                /\ \E tag_counts \in value_counts(all_tags(df)) :
                       ret' = Returned("analyze_tags", <<>>,
                                       tag_stats(df, tag_counts))
        /\ before' = session_state.data.rows
        /\ UNCHANGED <<dataset, self>>

\* self.analyze_contributors()
AnalyzeContributors ==
    /\ self.constructed
    /\ \E counts \in value_counts(Values(Cells(session_state.data.rows,
                                                "contributor_id"))) :
           ret' = Returned("analyze_contributors", <<>>,
                           contributor_stats(session_state.data, counts))
    /\ before' = session_state.data.rows
    /\ UNCHANGED <<dataset, session_state, self>>

\* self.analyze_recipe_complexity()
AnalyzeComplexity ==
    /\ self.constructed
    /\ ret' = Returned("analyze_recipe_complexity", <<>>,
                       complexity_stats(session_state.data))
    /\ before' = session_state.data.rows
    /\ UNCHANGED <<dataset, session_state, self>>

\* self.analyze_recipe_dataset(): general_stats, then the temporal,
\* complexity, nutrition, tag and contributor analyses in that order; one that
\* raises ends the call and leaves the columns the earlier ones added
AnalyzeRecipeDataset ==
    LET data == session_state.data
        with_nutrition == AddNutritionList(data)
        df == AddTagsList(with_nutrition)
        general == general_stats(data)
        temporal == temporal_stats(data, self.date_start, self.date_end)
        complexity == complexity_stats(data)
        nutrition == nutrition_stats(with_nutrition)
    IN  /\ self.constructed
        /\ IF NutritionEvalRaises(data)
           THEN /\ ret' = Raised("analyze_recipe_dataset", <<>>)
                /\ UNCHANGED session_state
           ELSE IF NutritionFrameRaises(with_nutrition) \/ TagsRaises(with_nutrition)
           THEN /\ ret' = Raised("analyze_recipe_dataset", <<>>)
                /\ session_state' = [session_state EXCEPT !.data = with_nutrition]
           ELSE /\ session_state' = [session_state EXCEPT !.data = df]
                /\ \E tag_counts \in value_counts(all_tags(df)),
                      counts \in value_counts(Values(Cells(df.rows,
                                                           "contributor_id"))) :
                       ret' = Returned("analyze_recipe_dataset", <<>>,
                                  recipe_dataset_analysis(general, temporal,
                                      complexity, nutrition,
                                      tag_stats(df, tag_counts),
                                      contributor_stats(df, counts)))
        /\ before' = session_state.data.rows
        /\ UNCHANGED <<dataset, self>>

Next ==
    \/ \E r \in DateRanges : Recipe(r[1], r[2])
    \/ \E k \in DetectThresholds : Detect(k[1], k[2])
    \/ \E c \in CleanCalls : Clean(c[1], c[2])
    \/ AnalyzeNutrition
    \/ \E r \in DateRanges : AnalyzeTemporal(r[1], r[2])
    \/ AnalyzeTags
    \/ AnalyzeContributors
    \/ AnalyzeComplexity
    \/ AnalyzeRecipeDataset

Spec == Init /\ [][Next]_vars

-----------------------------------------------------------------------------
(* What the claims speak of, stated apart from the model of the code *)

\* the call that led to this state
After(op) == ret.op = op /\ ~ret.raised

\* the report the last call produced: the one returned by a detection, the
\* one stored by a construction
Reported == IF ret.op = "Recipe" THEN self.annomalis ELSE ret.value

ReportedStdThreshold == IF ret.op = "Recipe" THEN DefaultThreshold ELSE ret.args[1]

ReportedZThreshold == IF ret.op = "Recipe" THEN DefaultThreshold ELSE ret.args[2]

AfterDetection == After("Recipe") \/ After("detect_dataframe_anomalies")

\* the non-null values of a column of rows
ValuesOf(rows, col) ==
    LET idx == {i \in 1..Len(rows) : rows[i][col] # <<>>}
        F[k \in 0..Len(rows)] ==
            IF k = 0 THEN <<>>
            ELSE IF k \in idx THEN Append(F[k - 1], rows[k][col][1]) ELSE F[k - 1]
    IN  F[Len(rows)]

\* n * (v - mean), for the mean of vals
ScaledDev(v, vals) == Len(vals) * v - SumSeq(vals)

\* n^2 * sum((x - mean)^2) over vals
ScaledSquares(vals) ==
    SumSeq([i \in 1..Len(vals) |-> ScaledDev(vals[i], vals) * ScaledDev(vals[i], vals)])

\* x / n > k * std for an integer x, n the number of vals and std their
\* standard deviation with divisor n - ddof, whatever the sign of k;
\* undefined statistics (too few values) put nothing beyond
Beyond(x, vals, k, ddof) ==
    LET left == x * x * k.den * k.den * (Len(vals) - ddof)
        right == k.num * k.num * ScaledSquares(vals)
    IN  /\ Len(vals) - ddof > 0
        /\ IF k.num >= 0 THEN x > 0 /\ left > right
           ELSE \/ x > 0
                \/ x = 0 /\ right > 0
                \/ x < 0 /\ left < right

\* |v - mean| > k * std, std the standard deviation with divisor n - ddof
DeviatesBy(v, vals, k, ddof) == Beyond(Abs(ScaledDev(v, vals)), vals, k, ddof)

\* v > mean + k * std (sample standard deviation)
AboveUpper(v, vals, k) == Beyond(ScaledDev(v, vals), vals, k, 1)

\* v < mean - k * std (sample standard deviation)
BelowLower(v, vals, k) == Beyond(-ScaledDev(v, vals), vals, k, 1)

\* the rows whose value lies strictly outside [mean - k*std, mean + k*std]
StrictlyOutside(rows, col, k) ==
    {i \in 1..Len(rows) :
        /\ rows[i][col] # <<>>
        /\ \/ AboveUpper(rows[i][col][1], ValuesOf(rows, col), k)
           \/ BelowLower(rows[i][col][1], ValuesOf(rows, col), k)}

SummaryRows(report, col) == {i \in 1..Len(report) : report[i].Column = col}

\* a sub-report summarises exactly the flagged rows of every numeric column:
\* flagged maps each numeric column to the index of its flagged rows
Summarises(report, flagged) ==
    \A col \in DOMAIN flagged :
        /\ Cardinality(SummaryRows(report, col)) = IF flagged[col] = {} THEN 0 ELSE 1
        /\ \A i \in SummaryRows(report, col) :
               report[i].OutlierCount = Cardinality(flagged[col])

NumericColumnNames == {"minutes", "contributor_id", "n_steps"}

MinutesOf(rows) == [i \in 1..Len(rows) |-> rows[i].minutes]

One == [num |-> 1, den |-> 1]

\* C1: after a detection with std_threshold k, every numeric column has a
\* summary row in std_outliers exactly when some row's value lies strictly
\* outside [mean - k*std, mean + k*std], and its Outlier Count is the number of
\* such rows; for the single column [1,2,3,4,100] and k = 1 the row holding
\* 100 is the sole outlier.
C1_StdOutliersExact ==
    AfterDetection =>
        /\ Summarises(Reported.std_outliers,
               [col \in NumericColumnNames |->
                   StrictlyOutside(session_state.data.rows, col,
                                   ReportedStdThreshold)])
        /\ (/\ MinutesOf(session_state.data.rows)
                   = <<(<<1>>), (<<2>>), (<<3>>), (<<4>>), (<<100>>)>>
            /\ ReportedStdThreshold = One)
               => /\ StrictlyOutside(session_state.data.rows, "minutes", One) = {5}
                  /\ \E i \in 1..Len(Reported.std_outliers) :
                         /\ Reported.std_outliers[i].Column = "minutes"
                         /\ Reported.std_outliers[i].OutlierCount = 1

\* the scenario [1,2,3,4,100] with std_threshold = 1 has been detected on
C1_Witness ==
    /\ After("detect_dataframe_anomalies")
    /\ ret.args[1] = One
    /\ MinutesOf(session_state.data.rows)
           = <<(<<1>>), (<<2>>), (<<3>>), (<<4>>), (<<100>>)>>
    /\ Len(ret.value.std_outliers) = 1
    /\ ret.value.std_outliers[1].OutlierCount = 1

\* the rows with |value - mean| / std > k, mean and std being the Mean and the
\* Standard Deviation a summary row reports: nulls skipped, divisor n - 1
FlaggedByReportedStats(rows, col, k) ==
    {i \in 1..Len(rows) :
        /\ rows[i][col] # <<>>
        /\ DeviatesBy(rows[i][col][1], ValuesOf(rows, col), k, 1)}

\* C2: after a detection with z_score_threshold k, every numeric column has a
\* summary row in z_score_outliers exactly when some row has
\* |value - mean| / std > k for the Mean and Standard Deviation the summary
\* reports, and its Outlier Count is the number of such rows.
C2_ZScoreMatchesReportedStats ==
    AfterDetection =>
        Summarises(Reported.z_score_outliers,
            [col \in NumericColumnNames |->
                FlaggedByReportedStats(session_state.data.rows, col,
                                       ReportedZThreshold)])

ReportKeys ==
    {"missing_values", "std_outliers", "z_score_outliers", "column_info", "data_types"}

\* C3: every detection, on any table (one with zero rows included), returns
\* a report holding all five keys and does not fail.
C3_ReportAlwaysComplete ==
    ret.op \in {"Recipe", "detect_dataframe_anomalies"} =>
        /\ ~ret.raised
        /\ ReportKeys \subseteq DOMAIN Reported

NullCount(rows, col) == Cardinality({i \in 1..Len(rows) : rows[i][col] = <<>>})

\* p hundredths is count / total * 100 rounded to 2 decimals
IsRoundedPercentage(p, count, total) ==
    /\ p.den = 100
    /\ 2 * Abs(p.num * total - count * 10000) <= total

\* C4: the missing_values sub-report lists exactly the columns with at least
\* one null, once each, with their null count and with
\* count / total_rows * 100 rounded to 2 decimals as Missing Percentage.
C4_MissingValuesExact ==
    AfterDetection =>
        LET rows == session_state.data.rows
            report == Reported.missing_values
        IN  /\ {report[i].Column : i \in 1..Len(report)}
                   = {c \in Range(session_state.data.columns) : NullCount(rows, c) > 0}
            /\ \A i, j \in 1..Len(report) :
                   report[i].Column = report[j].Column => i = j
            /\ \A i \in 1..Len(report) :
                   /\ report[i].MissingCount = NullCount(rows, report[i].Column)
                   /\ IsRoundedPercentage(report[i].MissingPercentage,
                          NullCount(rows, report[i].Column), Len(rows))

\* a detection has listed exactly one column, null in one row of three (33.33)
C4_Witness ==
    /\ AfterDetection
    /\ Len(session_state.data.rows) = 3
    /\ Len(Reported.missing_values) = 1
    /\ Reported.missing_values[1].MissingCount = 1
    /\ Reported.missing_values[1].MissingPercentage = [num |-> 3333, den |-> 100]

ListedColumns(recipe) ==
    {recipe.annomalis.missing_values[i].Column :
        i \in 1..Len(recipe.annomalis.missing_values)}

NoNullInListed(rows, recipe) ==
    \A i \in 1..Len(rows) : \A c \in ListedColumns(recipe) : rows[i][c] # <<>>

\* C5: a step of clean_dataframe, for either method, leaves the Recipe (the
\* report stored at construction with it) as it was, and leaves no row with a
\* null in a column that report's missing_values lists.
C5_CleanDropsListedNulls ==
    [][ret'.op = "clean_dataframe" =>
           /\ self' = self
           /\ NoNullInListed(session_state'.data.rows, self)]_vars

\* a cleaning, of a table extended with tags_list after construction, has
\* dropped a row for a null in a listed column and kept another row
C5_Witness ==
    /\ After("clean_dataframe")
    /\ ListedColumns(self) # {}
    /\ "tags_list" \in Range(session_state.data.columns)
    /\ "tags_list" \notin Range(self.columns)
    /\ session_state.data.rows # <<>>
    /\ \E i \in 1..Len(before) : before[i].minutes # <<>> /\ before[i].description = <<>>
    /\ NoNullInListed(session_state.data.rows, self)

BucketTotal(ranges) == SumSeq([i \in 1..Len(labels) |-> ranges[labels[i]]])

\* C6: after analyze_recipe_complexity on a table whose minutes are all
\* non-negative integers, the five time_ranges counts sum to the number of
\* rows; for minutes = [10, 45, 70, 200] the counts are 1, 0, 1, 1, 1.
C6_EveryRowInOneBucket ==
    After("analyze_recipe_complexity") =>
        LET rows == session_state.data.rows
            ranges == ret.value.time_stats.time_ranges
        IN  /\ (\A i \in 1..Len(rows) : rows[i].minutes # <<>> /\ rows[i].minutes[1] >= 0)
                   => BucketTotal(ranges) = Len(rows)
            /\ MinutesOf(rows) = <<(<<10>>), (<<45>>), (<<70>>), (<<200>>)>>
                   => [i \in 1..Len(labels) |-> ranges[labels[i]]] = <<1, 0, 1, 1, 1>>

\* the tag lists of the rows, as analyze_tags left them in tags_list
TagLists(rows) == [i \in 1..Len(rows) |-> rows[i].tags_list[1]]

AllTags(rows) == UNION {Range(TagLists(rows)[i]) : i \in 1..Len(rows)}

\* occurrences of a tag over all rows
TagCount(rows, tag) ==
    SumSeq([i \in 1..Len(rows) |->
               Cardinality({j \in 1..Len(TagLists(rows)[i]) : TagLists(rows)[i][j] = tag})])

\* C7: after analyze_tags, total_unique_tags is the cardinality of the union
\* of the rows' tag lists; most_common_tags has min(20, total_unique_tags)
\* entries for distinct tags, by descending count, each count the number of
\* occurrences of its tag over all rows, and no tag left out has a count
\* greater than one that is included.
C7_TagStatsExact ==
    After("analyze_tags") =>
        LET rows == session_state.data.rows
            top == ret.value.most_common_tags
            total == ret.value.total_unique_tags
        IN  /\ total = Cardinality(AllTags(rows))
            /\ Len(top) = IF total < 20 THEN total ELSE 20
            /\ \A i, j \in 1..Len(top) :
                   /\ i < j => top[i].count >= top[j].count
                   /\ top[i].value = top[j].value => i = j
            /\ \A i \in 1..Len(top) :
                   /\ top[i].value \in AllTags(rows)
                   /\ top[i].count = TagCount(rows, top[i].value)
            /\ \A t \in AllTags(rows) \ {top[i].value : i \in 1..Len(top)} :
                   \A i \in 1..Len(top) : TagCount(rows, t) <= top[i].count

\* tags were analysed on a table with more than 20 distinct tags, one of them
\* occurring more often than another
C7_Witness ==
    /\ After("analyze_tags")
    /\ ret.value.total_unique_tags > 20
    /\ Len(ret.value.most_common_tags) = 20
    /\ ret.value.most_common_tags[1].count > ret.value.most_common_tags[20].count

\* rows without the rows of index drop
Without(rows, drop) == FilterRows(rows, (1..Len(rows)) \ drop, 1)

\* column after column, in table column order, the rows whose value lies
\* outside [mean - k*std, mean + k*std] over the rows still there are removed
\* and every other row is kept
RECURSIVE RemovingOutside(_, _, _)
RemovingOutside(rows, cols, k) ==
    IF cols = <<>> THEN rows
    ELSE RemovingOutside(Without(rows, StrictlyOutside(rows, Head(cols), k)),
                         Tail(cols), k)

\* column after column, the rows z-score detection flags over the rows still
\* there are removed and every other row is kept
RECURSIVE RemovingFlagged(_, _, _)
RemovingFlagged(rows, cols, k) ==
    IF cols = <<>> THEN rows
    ELSE RemovingFlagged(Without(rows, ZScoreOutlierRows(rows, Head(cols), k)),
                         Tail(cols), k)

\* the rows with no null in a column the stored report lists (C5)
WithoutListedNulls(rows, recipe) ==
    Without(rows, {i \in 1..Len(rows) :
                      \E c \in ListedColumns(recipe) : rows[i][c] = <<>>})

\* C8: clean_dataframe('std', threshold) removes, column after column over
\* the rows that survived the earlier columns, exactly the rows whose value
\* lies outside [mean - threshold*std, mean + threshold*std] and keeps every
\* other row (the rows with a listed null then go, as C5 says).
C8_StdCleanRemovesExactlyOutside ==
    (After("clean_dataframe") /\ ret.args[1] = "std") =>
        session_state.data.rows
            = WithoutListedNulls(
                  RemovingOutside(before, <<"minutes", "contributor_id", "n_steps">>,
                                  ret.args[2]), self)

\* C9: clean_dataframe('zscore', threshold) removes, at each numeric column,
\* exactly the rows z-score detection with that threshold flags over the
\* current table and keeps every other row; a column where detection finds no
\* outlier (all values equal, a one-row table) removes no row.
C9_ZScoreCleanRemovesExactlyFlagged ==
    (After("clean_dataframe") /\ ret.args[1] = "zscore") =>
        session_state.data.rows
            = WithoutListedNulls(
                  RemovingFlagged(before, <<"minutes", "contributor_id", "n_steps">>,
                                  ret.args[2]), self)

\* the dataset's rows, dates read, whose submitted lies in [date_start, date_end]
DatasetRowsWithin(date_start, date_end) ==
    LET rows == [i \in 1..Len(dataset.rows) |->
                    [dataset.rows[i] EXCEPT
                        !.submitted = <<Date(@[1], @[2], @[3])>>]]
    IN  Without(rows, {i \in 1..Len(rows) :
                          \/ rows[i].submitted[1] < date_start
                          \/ rows[i].submitted[1] > date_end})

\* rows without what the analyses added
DropListColumns(rows) ==
    [i \in 1..Len(rows) |->
        [rows[i] EXCEPT !.tags_list = <<>>, !.nutrition_list = <<>>]]

\* C10: after any construction Recipe(date_start, date_end), the session
\* table holds exactly the rows of the loaded dataset whose submitted date
\* lies in [date_start, date_end], whatever constructions came before.
C10_SessionHoldsRangeOfDataset ==
    After("Recipe") =>
        DropListColumns(session_state.data.rows)
            = DatasetRowsWithin(ret.args[1], ret.args[2])

=============================================================================
